---- MODULE Spec2Model ----
(***************************************************************************)
(* SmartSafeMapper (src/mapper.py): a reactive obstacle-avoidance node.     *)
(* A lidar callback stores the latest LaserScan; a 0.1 s timer callback     *)
(* (control_loop) reduces the scan to front/left/right sector minima and    *)
(* drives a three-state machine (EXPLORING, BACKING_UP, TURNING) that       *)
(* publishes one Twist per tick.                                            *)
(*                                                                         *)
(* Python floats are IEEE-754 binary64.  The thresholds of the program     *)
(* (0.1, 0.3, 0.7, 1.5, 3.5) and its timer (backup_time += 0.1) are         *)
(* decided by rounded arithmetic, so floats are modelled exactly: a finite  *)
(* float is sign * m * 2^e with m a 53-bit natural kept as 14-bit limbs     *)
(* (TLC's integers are 32 bits wide), and +, -, * and the reading of a      *)
(* decimal literal round to nearest, ties to even, as the hardware does.    *)
(* Subnormals and overflow are outside the range of values of the model.    *)
(***************************************************************************)
EXTENDS Integers, Sequences, FiniteSets, TLC

(***************************************************************************)
(* Naturals of arbitrary size: little-endian sequences of limbs < Base,     *)
(* without leading zero limbs; <<>> is zero.                                *)
(***************************************************************************)
LimbBits == 14
Base == 2^LimbBits

RECURSIVE Trim(_)
Trim(a) == IF a = <<>> THEN <<>>
           ELSE IF a[Len(a)] = 0 THEN Trim(SubSeq(a, 1, Len(a) - 1)) ELSE a

RECURSIVE AddC(_, _, _)
AddC(a, b, c) ==
    IF a = <<>> /\ b = <<>> THEN (IF c = 0 THEN <<>> ELSE <<c>>)
    ELSE LET x == IF a = <<>> THEN 0 ELSE Head(a)
             y == IF b = <<>> THEN 0 ELSE Head(b)
             s == x + y + c
         IN  <<s % Base>> \o AddC(IF a = <<>> THEN <<>> ELSE Tail(a),
                                  IF b = <<>> THEN <<>> ELSE Tail(b), s \div Base)

BigAdd(a, b) == AddC(a, b, 0)

\* a - b - c for a >= b + c
RECURSIVE SubB(_, _, _)
SubB(a, b, c) ==
    IF a = <<>> THEN <<>>
    ELSE LET y == IF b = <<>> THEN 0 ELSE Head(b)
             d == Head(a) - y - c
         IN  <<d % Base>> \o SubB(Tail(a), IF b = <<>> THEN <<>> ELSE Tail(b),
                                  IF d < 0 THEN 1 ELSE 0)

BigSub(a, b) == Trim(SubB(a, b, 0))

\* -1, 0 or 1 as a < b, a = b, a > b
RECURSIVE CmpFrom(_, _, _)
CmpFrom(a, b, i) ==
    IF i = 0 THEN 0
    ELSE IF a[i] < b[i] THEN -1
    ELSE IF a[i] > b[i] THEN 1
    ELSE CmpFrom(a, b, i - 1)

BigCmp(a, b) ==
    IF Len(a) < Len(b) THEN -1
    ELSE IF Len(a) > Len(b) THEN 1
    ELSE CmpFrom(a, b, Len(a))

\* a * s + c for a limb s
RECURSIVE MulC(_, _, _)
MulC(a, s, c) ==
    IF a = <<>> THEN (IF c = 0 THEN <<>> ELSE <<c>>)
    ELSE LET p == Head(a) * s + c
         IN  <<p % Base>> \o MulC(Tail(a), s, p \div Base)

MulSmall(a, s) == Trim(MulC(a, s, 0))

ShiftLimb(a) == IF a = <<>> THEN <<>> ELSE <<0>> \o a

RECURSIVE BigMul(_, _)
BigMul(a, b) ==
    IF b = <<>> THEN <<>>
    ELSE BigAdd(MulSmall(a, Head(b)), ShiftLimb(BigMul(a, Tail(b))))

\* quotient and remainder of a by a limb d > 0, from the top limb down
RECURSIVE DivFrom(_, _, _, _)
DivFrom(a, d, i, r) ==
    IF i = 0 THEN [q |-> <<>>, r |-> r]
    ELSE LET t == r * Base + a[i]
             rest == DivFrom(a, d, i - 1, t % d)
         IN  [q |-> rest.q \o <<t \div d>>, r |-> rest.r]

DivSmall(a, d) == LET x == DivFrom(a, d, Len(a), 0) IN [q |-> Trim(x.q), r |-> x.r]

RECURSIVE Zeros(_)
Zeros(n) == IF n = 0 THEN <<>> ELSE <<0>> \o Zeros(n - 1)

Shl(a, k) == IF a = <<>> THEN <<>>
             ELSE Zeros(k \div LimbBits) \o MulSmall(a, 2^(k % LimbBits))

Shr(a, k) == IF Len(a) <= k \div LimbBits THEN <<>>
             ELSE DivSmall(SubSeq(a, (k \div LimbBits) + 1, Len(a)), 2^(k % LimbBits)).q

RECURSIVE LimbLen(_)
LimbLen(x) == IF x = 0 THEN 0 ELSE 1 + LimbLen(x \div 2)

BitLen(a) == IF a = <<>> THEN 0 ELSE LimbBits * (Len(a) - 1) + LimbLen(a[Len(a)])

IsOdd(a) == a # <<>> /\ a[1] % 2 = 1

BigOne == <<1>>

\* a / 2^k rounded to nearest, ties to even: q is the quotient, c compares
\* the remainder with one half
RoundUp(q, c) == IF c > 0 \/ (c = 0 /\ IsOdd(q)) THEN BigAdd(q, BigOne) ELSE q

RoundFrom(a, k, q) ==
    RoundUp(q, BigCmp(BigSub(a, Shl(q, k)), Shl(BigOne, k - 1)))

RoundShr(a, k) == IF k = 0 THEN a ELSE RoundFrom(a, k, Shr(a, k))

RECURSIVE FromNat(_)
FromNat(n) == IF n = 0 THEN <<>> ELSE <<n % Base>> \o FromNat(n \div Base)

(***************************************************************************)
(* Python floats.  cls is "fin", "inf" or "nan"; a finite non-zero float    *)
(* has a mantissa m of exactly Precision bits and the value m * 2^e,        *)
(* negated when neg; zero is m = <<>>, e = 0 (the sign of zero, which no    *)
(* comparison of the program observes, is not kept).                        *)
(***************************************************************************)
Precision == 53
SinglePrecision == 24

FZero == [cls |-> "fin", neg |-> FALSE, m |-> <<>>, e |-> 0]
FNaN == [cls |-> "nan", neg |-> FALSE, m |-> <<>>, e |-> 0]
FInf(neg) == [cls |-> "inf", neg |-> neg, m |-> <<>>, e |-> 0]

\* the float of mantissa r * 2^pad and exponent e - pad; pad is -1 when
\* rounding has carried r up to 2^Precision
Pack(neg, r, e, pad) ==
    [cls |-> "fin", neg |-> neg,
     m |-> IF pad >= 0 THEN Shl(r, pad) ELSE Shr(r, 0 - pad), e |-> e - pad]

\* the float r * 2^e for r of at most Precision bits, or r = 2^Precision
Exact(neg, r, e) == Pack(neg, r, e, Precision - BitLen(r))

\* the float nearest to m * 2^e once the lowest k bits of m are rounded away
Rounded(neg, m, e, k) == Exact(neg, RoundShr(m, k), e + k)

\* the float of `prec` bits nearest to m * 2^e, held with Precision bits
Normalize(neg, m, e, prec) ==
    IF m = <<>> THEN FZero
    ELSE Rounded(neg, m, e, IF BitLen(m) > prec THEN BitLen(m) - prec ELSE 0)

FNeg(x) == IF x.cls = "nan" \/ (x.cls = "fin" /\ x.m = <<>>) THEN x
           ELSE [x EXCEPT !.neg = ~x.neg]

\* x + y for finite non-zero x, y with mantissas mx, my aligned at exponent
\* e0; c compares mx with my
AddAligned(x, y, mx, my, e0, c) ==
    Normalize(IF x.neg = y.neg \/ c > 0 THEN x.neg ELSE y.neg,
              IF x.neg = y.neg THEN BigAdd(mx, my)
              ELSE IF c >= 0 THEN BigSub(mx, my)
              ELSE BigSub(my, mx),
              e0, Precision)

AddAt(x, y, mx, my, e0) == AddAligned(x, y, mx, my, e0, BigCmp(mx, my))

AddFinite(x, y, e0) == AddAt(x, y, Shl(x.m, x.e - e0), Shl(y.m, y.e - e0), e0)

FAdd(x, y) ==
    IF x.cls = "nan" \/ y.cls = "nan" THEN FNaN
    ELSE IF x.cls = "inf" THEN (IF y.cls = "inf" /\ y.neg # x.neg THEN FNaN ELSE x)
    ELSE IF y.cls = "inf" THEN y
    ELSE IF x.m = <<>> THEN y
    ELSE IF y.m = <<>> THEN x
    ELSE AddFinite(x, y, IF x.e < y.e THEN x.e ELSE y.e)

FSub(x, y) == FAdd(x, FNeg(y))

FMul(x, y) ==
    IF x.cls = "nan" \/ y.cls = "nan" THEN FNaN
    ELSE IF x.cls = "inf" \/ y.cls = "inf"
         THEN (IF (x.cls = "fin" /\ x.m = <<>>) \/ (y.cls = "fin" /\ y.m = <<>>)
               THEN FNaN ELSE FInf(x.neg # y.neg))
    ELSE Normalize(x.neg # y.neg, BigMul(x.m, y.m), x.e + y.e, Precision)

\* |x| < |y| for x, y not NaN
MagLess(x, y) ==
    IF x.cls = "inf" THEN FALSE
    ELSE IF y.cls = "inf" THEN TRUE
    ELSE IF x.m = <<>> THEN y.m # <<>>
    ELSE IF y.m = <<>> THEN FALSE
    ELSE x.e < y.e \/ (x.e = y.e /\ BigCmp(x.m, y.m) < 0)

\* x < y, x > y, x >= y as Python evaluates them: False when either is NaN
FLt(x, y) ==
    /\ x.cls # "nan" /\ y.cls # "nan"
    /\ IF x.neg # y.neg THEN x.neg
       ELSE IF x.neg THEN MagLess(y, x) ELSE MagLess(x, y)

FGt(x, y) == FLt(y, x)

FGe(x, y) == x.cls # "nan" /\ y.cls # "nan" /\ ~FLt(x, y)

isnan(x) == x.cls = "nan"

\* the value of the literal num/den (den a power of ten below Base), as the
\* Python parser reads it: the nearest float; d is the quotient and remainder
\* of num * 2^LitBits by den, and the quotient is given a sticky bit
LitBits == 70

LitFrom(d, prec) ==
    Normalize(FALSE, BigAdd(Shl(d.q, 1), IF d.r = 0 THEN <<>> ELSE BigOne),
              0 - LitBits - 1, prec)

Lit(num, den) == LitFrom(DivSmall(Shl(FromNat(num), LitBits), den), Precision)

\* a float32 field of a message (LaserScan.ranges, range_max), read as a Python float
Lit32(num, den) ==
    LitFrom(DivSmall(Shl(FromNat(num), LitBits), den), SinglePrecision)

(***************************************************************************)
(* SmartSafeMapper.__init__: the parameters and the initial fields.         *)
(***************************************************************************)
safe_distance == Lit(7, 10)
min_distance == Lit(3, 10)
forward_speed == Lit(12, 100)
turn_speed == Lit(8, 10)
backup_speed == FNeg(Lit(1, 10))

\* the literals of get_safe_directions and control_loop
noise_floor == Lit(1, 10)          \* r > 0.1
margin_narrow == Lit(2, 10)
margin == Lit(3, 10)               \* (left_min - right_min) > 0.3
steer_factor == Lit(3, 10)         \* self.forward_speed * 0.3
coin == Lit(1, 2)                  \* random.random() > 0.5
tick_period == Lit(1, 10)          \* self.backup_time += 0.1
backup_duration_short == Lit(14, 10)
backup_duration == Lit(15, 10)     \* self.backup_time >= 1.5
turning_cutoff_long == Lit(36, 10)
turning_cutoff == Lit(35, 10)      \* self.backup_time >= 3.5

None == [kind |-> "None"]

\* geometry_msgs Twist(): every component 0.0
Twist == [linear |-> FZero, angular |-> FZero]

(***************************************************************************)
(* What the sensor can deliver.  The surroundings give a distance for each  *)
(* whole degree, 0 ahead, counted the way the scan counts: `sur` holds the  *)
(* distance ahead (within 30 degrees of 0), on the left (60 to 120), on the *)
(* right (240 to 300) and elsewhere, and `spot`, when not empty, is one     *)
(* degree and the distance seen there instead.  A scan of n samples reads   *)
(* the surroundings at n evenly spaced angles.  The state keeps a LaserScan *)
(* by what determines it (n, sur, spot, range_max); Ranges gives its        *)
(* array msg.ranges.                                                        *)
(***************************************************************************)
Degrees == 360

LaserScan(n, sur, spot, range_max) ==
    [kind |-> "LaserScan", n |-> n, sur |-> sur, spot |-> spot,
     range_max |-> range_max]

DistanceAt(msg, d) ==
    IF msg.spot # <<>> /\ d = msg.spot[1] THEN msg.spot[2]
    ELSE IF d < 30 \/ d >= 330 THEN msg.sur[1]
    ELSE IF d >= 60 /\ d < 120 THEN msg.sur[2]
    ELSE IF d >= 240 /\ d < 300 THEN msg.sur[3]
    ELSE msg.sur[4]

Ranges(msg) ==
    SubSeq([j \in 1..msg.n |-> DistanceAt(msg, ((j - 1) * Degrees) \div msg.n)],
           1, msg.n)

RangeMax == Lit32(35, 10)

\* distances in metres
D02 == Lit(2, 10)
D05 == Lit(5, 10)
D09 == Lit(9, 10)
D10 == Lit(1, 1)
D12 == Lit(12, 10)
D20 == Lit(2, 1)

ClearScan == LaserScan(Degrees, <<D10, D10, D10, D10>>, <<>>, RangeMax)
LeftOpenScan == LaserScan(Degrees, <<D05, D12, D05, D20>>, <<>>, RangeMax)
RightOpenScan == LaserScan(Degrees, <<D05, D05, D12, D20>>, <<>>, RangeMax)
EvenScan == LaserScan(Degrees, <<D05, D09, D09, D20>>, <<>>, RangeMax)
TooCloseScan == LaserScan(Degrees, <<D02, D12, D09, D20>>, <<>>, RangeMax)
\* nothing valid ahead or on the right
InvalidScan ==
    LaserScan(Degrees, <<FNaN, D20, FZero, FInf(FALSE)>>, <<>>, RangeMax)
EmptyScan == LaserScan(0, <<D10, D10, D10, D10>>, <<>>, RangeMax)
\* an obstacle 15 degrees to the right of ahead, seen at half-degree resolution
FineScan == LaserScan(2 * Degrees, <<D10, D10, D10, D10>>, <<345, D02>>, RangeMax)
\* an obstacle on the left only, seen by a scanner of 100 samples
CoarseSamples == 100
CoarseScan == LaserScan(CoarseSamples, <<D10, D02, D10, D10>>, <<>>, RangeMax)
\* samples as a float32 array carries them
S05 == Lit32(5, 10)
S09 == Lit32(9, 10)
S12 == Lit32(12, 10)
S20 == Lit32(2, 1)
SingleScan == LaserScan(Degrees, <<S05, S12, S09, S20>>, <<>>, RangeMax)

Scans == {ClearScan, LeftOpenScan, RightOpenScan, EvenScan, TooCloseScan,
          InvalidScan, EmptyScan, FineScan, CoarseScan, SingleScan}

(***************************************************************************)
(* The scans get_safe_directions is checked on by itself: every choice of   *)
(* the four distances among an invalid, a boundary and some valid values,   *)
(* at three resolutions; single spots at the edges of the sectors; and      *)
(* scans of very few samples.                                               *)
(***************************************************************************)
D01 == Lit(1, 10)
D50 == Lit(5, 1)

SampleValues == {FNaN, D01, D02, D10, D50}
ScanSizes == {CoarseSamples, Degrees, 2 * Degrees}
SpotDegrees == {0, 29, 30, 59, 60, 119, 120, 239, 240, 299, 300, 329, 330, 345, 359}
SpotValues == {D05, FInf(FALSE), FNeg(D10), RangeMax, FZero}
FewSamples == 7

UniformScans ==
    {LaserScan(n, <<a, b, c, d>>, <<>>, RangeMax) :
        n \in ScanSizes, a \in SampleValues, b \in SampleValues,
        c \in SampleValues, d \in SampleValues}

SpotScans ==
    {LaserScan(n, sur, <<d, v>>, RangeMax) :
        n \in ScanSizes, sur \in {<<D10, D10, D10, D10>>, <<FNaN, FNaN, FNaN, FNaN>>},
        d \in SpotDegrees, v \in SpotValues}

TinyScans ==
    {LaserScan(n, <<a, D10, D10, D10>>, <<>>, RangeMax) :
        n \in {0, 1, FewSamples}, a \in SampleValues}

\* left and right distances whose difference is at, just over or well within
\* the 0.3 margin: 0.5 - 0.2 is the float 0.3, 0.8 - 0.5 is the next float
\* above it and 1.2 - 0.9 the second float below it
D08 == Lit(8, 10)
MarginValues == {D02, D05, D08, D09, D12}
MarginScans ==
    {LaserScan(n, <<D10, b, c, D10>>, <<>>, RangeMax) :
        n \in ScanSizes, b \in MarginValues, c \in MarginValues}

ScanInputs == UniformScans \cup SpotScans \cup TinyScans \cup MarginScans

\* what random.random() can return: values of [0, 1), 0.5 among them
RandomDraws == {FZero, Lit(1, 2), Lit(3, 4)}

(***************************************************************************)
(* SmartSafeMapper.get_safe_directions                                      *)
(***************************************************************************)
\* list(range(a, b))
Range(a, b) == [k \in 1..(b - a) |-> a + k - 1]

front_indices == Range(0, 30) \o Range(330, 360)
left_indices == Range(60, 120)
right_indices == Range(240, 300)

\* [i % num_ranges for i in indices], for num_ranges > 0
Corrected(indices, num_ranges) ==
    [k \in 1..Len(indices) |-> indices[k] % num_ranges]

\* not math.isnan(r) and r > 0.1 and r < range_max
SampleValidNoFloor(r, range_max) == ~isnan(r) /\ FGt(r, FZero) /\ FLt(r, range_max)
SampleValid(r, range_max) == ~isnan(r) /\ FGt(r, noise_floor) /\ FLt(r, range_max)

\* the list valid_ranges: the samples, in the order of `indices` (0-based),
\* that pass `if idx < len(ranges)` and the validity test
ValidRanges(indices, ranges, range_max) ==
    LET kept == SelectSeq(indices,
                    LAMBDA idx : idx < Len(ranges)
                                 /\ SampleValid(ranges[idx + 1], range_max))
    IN  [k \in 1..Len(kept) |-> ranges[kept[k] + 1]]

\* min(xs[lo..hi]): the first of the smallest elements, as Python's min gives
\* it (the halves are compared, so that the evaluation stays shallow)
RECURSIVE MinOf(_, _, _)
MinOf(xs, lo, hi) ==
    IF lo = hi THEN xs[lo]
    ELSE LET mid == (lo + hi) \div 2
             a == MinOf(xs, lo, mid)
             b == MinOf(xs, mid + 1, hi)
         IN  IF FLt(b, a) THEN b ELSE a

get_sector_min(indices, ranges, range_max) ==
    LET valid_ranges == ValidRanges(indices, ranges, range_max)
    IN  IF valid_ranges # <<>> THEN MinOf(valid_ranges, 1, Len(valid_ranges))
        ELSE range_max

ZeroDivisionError == [kind |-> "ZeroDivisionError"]

get_safe_directions(ld) ==
    IF ld = None THEN None
    ELSE LET ranges == Ranges(ld)
             num_ranges == Len(ranges)
         IN  IF num_ranges = 0 THEN ZeroDivisionError
             ELSE LET front_min == get_sector_min(Corrected(front_indices, num_ranges),
                                                  ranges, ld.range_max)
                      left_min == get_sector_min(Corrected(left_indices, num_ranges),
                                                 ranges, ld.range_max)
                      right_min == get_sector_min(Corrected(right_indices, num_ranges),
                                                  ranges, ld.range_max)
                      left_better == FGt(FSub(left_min, right_min), margin)
                      right_better == FGt(FSub(right_min, left_min), margin)
                  IN  [kind |-> "sectors",
                       front |-> front_min, left |-> left_min, right |-> right_min,
                       left_better |-> left_better, right_better |-> right_better,
                       equal |-> ~left_better /\ ~right_better]

(***************************************************************************)
(* SmartSafeMapper.control_loop: the state machine.  Each branch gives the  *)
(* state, the backup_time and the Twist after the tick; r is the value      *)
(* random.random() returns if the branch calls it.                          *)
(***************************************************************************)
\* self.turn_speed if random.random() > 0.5 else -self.turn_speed
RandomTurnInverted(r) == IF FGt(r, coin) THEN FNeg(turn_speed) ELSE turn_speed
RandomTurn(r) == IF FGt(r, coin) THEN turn_speed ELSE FNeg(turn_speed)

SteerAngular(sectors, r) ==
    IF sectors.left_better THEN turn_speed
    ELSE IF sectors.right_better THEN FNeg(turn_speed)
    ELSE RandomTurn(r)

TurningAngularRandom(sectors, r) == RandomTurn(r)
TurningAngular(sectors, r) ==
    IF sectors.left_better THEN turn_speed
    ELSE IF sectors.right_better THEN FNeg(turn_speed)
    ELSE RandomTurn(r)

\* EXPLORING, front_distance < self.min_distance
ExploringTooCloseKeepTime(bt) ==
    [state |-> "BACKING_UP", backup_time |-> bt,
     cmd |-> [linear |-> backup_speed, angular |-> FZero]]
ExploringTooClose(bt) ==
    [state |-> "BACKING_UP", backup_time |-> FZero,
     cmd |-> [linear |-> backup_speed, angular |-> FZero]]

\* EXPLORING, front_distance < self.safe_distance
ExploringSteerNoTurn(bt, sectors, r) ==
    [state |-> "EXPLORING", backup_time |-> bt,
     cmd |-> [linear |-> FMul(forward_speed, steer_factor),
              angular |-> IF sectors.equal THEN FZero ELSE SteerAngular(sectors, r)]]
ExploringSteer(bt, sectors, r) ==
    [state |-> "EXPLORING", backup_time |-> bt,
     cmd |-> [linear |-> FMul(forward_speed, steer_factor),
              angular |-> SteerAngular(sectors, r)]]

\* EXPLORING, otherwise
ExploringStraightTimed(bt) ==
    [state |-> "EXPLORING", backup_time |-> FAdd(bt, tick_period),
     cmd |-> [linear |-> forward_speed, angular |-> FZero]]
ExploringStraight(bt) ==
    [state |-> "EXPLORING", backup_time |-> bt,
     cmd |-> [linear |-> forward_speed, angular |-> FZero]]

ExploringCreep(bt, sectors, r) ==
    IF FLt(sectors.front, safe_distance) THEN ExploringSteer(bt, sectors, r)
    ELSE ExploringStraight(bt)
Exploring(bt, sectors, r) ==
    IF FLt(sectors.front, min_distance) THEN ExploringTooClose(bt)
    ELSE IF FLt(sectors.front, safe_distance) THEN ExploringSteer(bt, sectors, r)
    ELSE ExploringStraight(bt)

BackingUpRestart(bt, sectors) ==
    LET t == FAdd(bt, tick_period)
    IN  [state |-> IF FGe(t, backup_duration) THEN "TURNING" ELSE "BACKING_UP",
         backup_time |-> IF FGe(t, backup_duration) THEN FZero ELSE t,
         cmd |-> [linear |-> backup_speed, angular |-> FZero]]
BackingUpUntilClear(bt, sectors) ==
    LET t == FAdd(bt, tick_period)
    IN  [state |-> IF FGe(t, backup_duration) \/ FGe(sectors.front, safe_distance)
                   THEN "TURNING" ELSE "BACKING_UP",
         backup_time |-> t,
         cmd |-> [linear |-> backup_speed, angular |-> FZero]]
BackingUp(bt, sectors) ==
    LET t == FAdd(bt, tick_period)
    IN  [state |-> IF FGe(t, backup_duration) THEN "TURNING" ELSE "BACKING_UP",
         backup_time |-> t,
         cmd |-> [linear |-> backup_speed, angular |-> FZero]]

TurningReset(bt, sectors, r) ==
    LET t == FAdd(bt, tick_period)
    IN  [state |-> IF FGe(t, turning_cutoff) THEN "EXPLORING" ELSE "TURNING",
         backup_time |-> IF FGe(t, turning_cutoff) THEN FZero ELSE t,
         cmd |-> [linear |-> FZero, angular |-> TurningAngular(sectors, r)]]
Turning(bt, sectors, r) ==
    LET t == FAdd(bt, tick_period)
    IN  [state |-> IF FGe(t, turning_cutoff) THEN "EXPLORING" ELSE "TURNING",
         backup_time |-> t,
         cmd |-> [linear |-> FZero, angular |-> TurningAngular(sectors, r)]]

\* whether the tick calls random.random()
DrawsRandom(st, sectors) ==
    /\ sectors.equal
    /\ \/ st = "TURNING"
       \/ /\ st = "EXPLORING"
          /\ ~FLt(sectors.front, min_distance)
          /\ FLt(sectors.front, safe_distance)

VARIABLES
    lidar_data,   \* self.lidar_data: None or the latest LaserScan
    state,        \* self.state
    backup_time,  \* self.backup_time
    phase,        \* main: "spinning", "stopped" (KeyboardInterrupt) or "crashed"
    out,          \* what the last tick, or the shutdown, published on /cmd_vel
    sectors,      \* control_loop's local `sectors` in the last tick, else None
    draw,         \* what random.random() returned in the last tick, else None
    op,           \* the last step: "init", "scan", "tick", "stop" or "summary"
    pre,          \* state, backup_time and out before the last tick or shutdown
    ticks,        \* ticks run in BACKING_UP or TURNING since BACKING_UP was entered
    frame         \* the call of control_loop under way, where its steps are told
                  \* apart: where it stands, and what each evaluation of
                  \* self.lidar_data has given it so far

vars == <<lidar_data, state, backup_time, phase, out, sectors, draw, op, pre, ticks,
          frame>>

\* no call of control_loop under way
NoCall == [pc |-> "idle", read |-> <<>>]

Snapshot == [state |-> state, backup_time |-> backup_time, out |-> out]

Init ==
    /\ lidar_data = None
    /\ state = "EXPLORING"
    /\ backup_time = FZero
    /\ phase = "spinning"
    /\ out = <<>>
    /\ sectors = None
    /\ draw = None
    /\ op = "init"
    /\ pre = [state |-> "EXPLORING", backup_time |-> FZero, out |-> <<>>]
    /\ ticks = 0
    /\ frame = NoCall

\* SmartSafeMapper.lidar_callback
lidar_callback_keep_first(msg) ==
    /\ phase = "spinning"
    /\ lidar_data' = IF lidar_data = None THEN msg ELSE lidar_data
    /\ op' = "scan"
    /\ UNCHANGED <<state, backup_time, phase, out, sectors, draw, pre, ticks, frame>>
lidar_callback(msg) ==
    /\ phase = "spinning"
    /\ lidar_data' = msg
    /\ op' = "scan"
    /\ UNCHANGED <<state, backup_time, phase, out, sectors, draw, pre, ticks, frame>>

\* control_loop before any scan: return
control_loop_no_data_publish ==
    /\ out' = <<Twist>>
    /\ sectors' = None
    /\ UNCHANGED <<lidar_data, state, backup_time, phase>>
control_loop_no_data ==
    /\ out' = <<>>
    /\ sectors' = None
    /\ UNCHANGED <<lidar_data, state, backup_time, phase>>

\* control_loop on a scan without samples: i % num_ranges raises
\* ZeroDivisionError, which leaves rclpy.spin and main (finally: destroy_node)
control_loop_raises ==
    /\ get_safe_directions(lidar_data) = ZeroDivisionError
    /\ phase' = "crashed"
    /\ out' = <<>>
    /\ sectors' = None
    /\ draw' = None
    /\ UNCHANGED <<lidar_data, state, backup_time, ticks>>

NextTicks(st) ==
    IF st = "EXPLORING"
    THEN (IF state' = "BACKING_UP" THEN 0 ELSE ticks)
    ELSE ticks + 1

control_loop_step ==
    /\ sectors' = get_safe_directions(lidar_data)
    /\ sectors'.kind = "sectors"
    /\ \E r \in RandomDraws :
         LET res == IF state = "EXPLORING" THEN Exploring(backup_time, sectors', r)
                    ELSE IF state = "BACKING_UP" THEN BackingUp(backup_time, sectors')
                    ELSE Turning(backup_time, sectors', r)
         IN  /\ state' = res.state
             /\ backup_time' = res.backup_time
             /\ out' = <<res.cmd>>
             /\ draw' = IF DrawsRandom(state, sectors') THEN r ELSE None
    /\ ticks' = NextTicks(state)
    /\ UNCHANGED <<lidar_data, phase>>

control_loop ==
    /\ phase = "spinning"
    /\ op' = "tick"
    /\ pre' = Snapshot
    /\ UNCHANGED frame
    /\ \/ /\ lidar_data = None
          /\ control_loop_no_data
          /\ draw' = None
          /\ ticks' = ticks
       \/ /\ lidar_data # None
          /\ \/ control_loop_raises
             \/ control_loop_step

\* main: KeyboardInterrupt during rclpy.spin; publish Twist(), destroy the node
KeyboardInterruptSilent ==
    /\ phase = "spinning"
    /\ phase' = "stopped"
    /\ op' = "stop"
    /\ pre' = Snapshot
    /\ UNCHANGED <<lidar_data, state, backup_time, out, sectors, draw, ticks, frame>>
KeyboardInterrupt ==
    /\ phase = "spinning"
    /\ phase' = "stopped"
    /\ out' = <<Twist>>
    /\ op' = "stop"
    /\ pre' = Snapshot
    /\ UNCHANGED <<lidar_data, state, backup_time, sectors, draw, ticks, frame>>

Next ==
    \/ \E msg \in Scans : lidar_callback(msg)
    \/ control_loop
    \/ KeyboardInterrupt

Spec == Init /\ [][Next]_vars

(***************************************************************************)
(* The commands the properties name, written out.                           *)
(***************************************************************************)
BackupCommand == [linear |-> FNeg(Lit(1, 10)), angular |-> FZero]
StraightCommand == [linear |-> Lit(12, 100), angular |-> FZero]
SteerCommand(sign) ==
    [linear |-> Lit(36, 1000),
     angular |-> IF sign > 0 THEN Lit(8, 10) ELSE FNeg(Lit(8, 10))]
SteerLeft == SteerCommand(1)
SteerRight == SteerCommand(-1)
TurnCommand(sign) ==
    [linear |-> FZero, angular |-> IF sign > 0 THEN Lit(8, 10) ELSE FNeg(Lit(8, 10))]
TurnLeft == TurnCommand(1)
TurnRight == TurnCommand(-1)
ZeroCommand == [linear |-> FZero, angular |-> FZero]

\* the last step was a tick that computed a sector summary, in state st
TickIn(st) == op = "tick" /\ pre.state = st /\ sectors.kind = "sectors"

\* C1: counting the ticks after the one that entered BACKING_UP, the
\* controller is in BACKING_UP at the start of exactly the first 15 of them,
\* in TURNING at the start of the next 20, and it is the 35th that returns it
\* to EXPLORING, whatever scans arrive meanwhile.
C1_EpisodeTiming ==
    /\ state = "BACKING_UP" => ticks \in 0..14
    /\ state = "TURNING" => ticks \in 15..34
    /\ (op = "tick" /\ pre.state = "BACKING_UP" /\ phase = "spinning") =>
          /\ state \in {"BACKING_UP", "TURNING"}
          /\ state = "TURNING" <=> ticks = 15
    /\ (op = "tick" /\ pre.state = "TURNING" /\ phase = "spinning") =>
          /\ state \in {"TURNING", "EXPLORING"}
          /\ state = "EXPLORING" <=> ticks = 35

C1_Witness ==
    /\ op = "tick" /\ pre.state = "TURNING" /\ state = "EXPLORING"
    /\ ticks = 35
    /\ lidar_data = TooCloseScan

\* C2: a tick in EXPLORING whose scan gives front_min < 0.3 publishes
\* linear = -0.1, angular = 0 on that tick, and leaves the state BACKING_UP
\* and the timer 0, whatever the timer was.
C2_TooCloseBacksUp ==
    (TickIn("EXPLORING") /\ FLt(sectors.front, min_distance)) =>
        /\ out = <<BackupCommand>>
        /\ state = "BACKING_UP"
        /\ backup_time = FZero

C2_Witness ==
    /\ TickIn("EXPLORING") /\ FLt(sectors.front, min_distance)
    /\ pre.backup_time # FZero
    /\ state = "BACKING_UP" /\ backup_time = FZero

\* C3: a tick in EXPLORING with 0.3 <= front_min < 0.7 publishes
\* linear = 0.036 and angular = +0.8 when left_better, -0.8 when
\* right_better, one of the two otherwise (never 0), and changes neither the
\* state nor the timer.
C3_SteerNearWall ==
    (/\ TickIn("EXPLORING")
     /\ FGe(sectors.front, min_distance)
     /\ FLt(sectors.front, safe_distance)) =>
        /\ out \in {<<SteerLeft>>, <<SteerRight>>}
        /\ sectors.left_better => out = <<SteerLeft>>
        /\ sectors.right_better => out = <<SteerRight>>
        /\ state = "EXPLORING"
        /\ backup_time = pre.backup_time

C3_Witness ==
    /\ TickIn("EXPLORING")
    /\ lidar_data = LeftOpenScan
    /\ out = <<SteerLeft>>
    /\ state = "EXPLORING"

\* C4: a tick in EXPLORING with front_min >= 0.7 publishes linear = 0.12,
\* angular = 0 and leaves the state and the timer as they were, whatever
\* left_min and right_min are; so repeated ticks on one scan repeat it.
C4_StraightIdempotent ==
    (TickIn("EXPLORING") /\ FGe(sectors.front, safe_distance)) =>
        /\ out = <<StraightCommand>>
        /\ state = "EXPLORING"
        /\ backup_time = pre.backup_time

C4_Witness ==
    /\ TickIn("EXPLORING") /\ FGe(sectors.front, safe_distance)
    /\ pre.out = <<StraightCommand>> /\ out = <<StraightCommand>>
    /\ pre.backup_time # FZero
    /\ ~sectors.equal

\* C5: every tick in TURNING publishes linear = 0 and angular = 0.8 * sign,
\* the sign taken on that tick from the summary of the scan the tick reads:
\* +1 if left_better, -1 if right_better, and from a fresh random draw if
\* equal.
C5_TurnSignFresh ==
    TickIn("TURNING") =>
        /\ out \in {<<TurnLeft>>, <<TurnRight>>}
        /\ sectors.left_better => out = <<TurnLeft>>
        /\ sectors.right_better => out = <<TurnRight>>
        /\ sectors.equal => /\ draw \in RandomDraws
                            /\ out = <<TurnLeft>> <=> FGt(draw, coin)
        /\ sectors = get_safe_directions(lidar_data)

C5_Witness ==
    /\ TickIn("TURNING")
    /\ pre.state = "TURNING" /\ pre.out = <<TurnRight>>
    /\ sectors.left_better /\ out = <<TurnLeft>>

\* C6: while no scan has been delivered every tick is a no-op: nothing is
\* published, the state is EXPLORING and the timer 0 as at construction.
C6_NoScanNoOp ==
    (lidar_data = None /\ phase = "spinning") =>
        /\ out = <<>>
        /\ state = "EXPLORING"
        /\ backup_time = FZero
        /\ op = "tick" => pre = Snapshot

C6_Witness == lidar_data = None /\ op = "tick" /\ pre = Snapshot /\ out = <<>>

\* C7: a tick on a delivered scan never raises, however malformed the scan.
\* (It fails: a scan without samples makes i % num_ranges raise.)
C7_TickNeverRaises ==
    (op = "tick" /\ lidar_data # None) => phase # "crashed"

\* C8: when the node is stopped (KeyboardInterrupt in rclpy.spin), in any
\* state, exactly one command is published, linear = 0 and angular = 0, and
\* it is the last one: a stopped node takes no further step.
C8_StopPublishesZero ==
    phase = "stopped" => (op = "stop" /\ out = <<ZeroCommand>>)

C8_Witness ==
    /\ phase = "stopped"
    /\ state = "TURNING"
    /\ pre.out = <<TurnLeft>>
    /\ out = <<ZeroCommand>>

(***************************************************************************)
(* get_safe_directions by itself: any scan of ScanInputs, summarised once.  *)
(***************************************************************************)
InitScan ==
    /\ lidar_data \in ScanInputs
    /\ state = "EXPLORING"
    /\ backup_time = FZero
    /\ phase = "spinning"
    /\ out = <<>>
    /\ sectors = None
    /\ draw = None
    /\ op = "init"
    /\ pre = [state |-> "EXPLORING", backup_time |-> FZero, out |-> <<>>]
    /\ ticks = 0
    /\ frame = NoCall

Summarise ==
    /\ op = "init"
    /\ sectors' = get_safe_directions(lidar_data)
    /\ op' = "summary"
    /\ UNCHANGED <<lidar_data, state, backup_time, phase, out, draw, pre, ticks, frame>>

NextScan == Summarise

SpecScan == InitScan /\ [][NextScan]_vars

\* C9: the sectors cover the same angles for any sample count; so a scan of
\* 720 samples and the scan of 360 samples of the same surroundings give the
\* same front_min, left_min and right_min.
\* (It fails: the index ranges 0..29, 330..359, 60..119, 240..299 are used as
\* they are for every sample count.)
C9_SameSectorsAtDoubleResolution ==
    (op = "summary" /\ lidar_data.n = 2 * Degrees) =>
        LET whole == get_safe_directions([lidar_data EXCEPT !.n = Degrees])
        IN  /\ sectors.front = whole.front
            /\ sectors.left = whole.left
            /\ sectors.right = whole.right

\* the samples the code reads for a sector of a scan of n > 0 samples
SectorSamples(msg, from, to) ==
    LET ranges == Ranges(msg)
    IN  {ranges[(i % msg.n) + 1] : i \in from..to}

\* a sector minimum v is range_max when the samples hold no valid value, and
\* otherwise a valid sample that no valid sample is below
IsSectorMin(v, samples, range_max) ==
    LET valid == {r \in samples :
                    r.cls # "nan" /\ FLt(D01, r) /\ FLt(r, range_max)}
    IN  /\ valid = {} => v = range_max
        /\ valid # {} => (v \in valid /\ \A r \in valid : ~FLt(r, v))
        /\ v = range_max \/ (FLt(D01, v) /\ FLt(v, range_max))

\* C10: each of front_min, left_min, right_min is range_max or lies strictly
\* between 0.1 and range_max: it is the least of the sector's samples that
\* are not NaN, > 0.1 and < range_max, and range_max when there is none;
\* only the samples of the sector decide it.
C10_SectorMinimum ==
    (op = "summary" /\ sectors.kind = "sectors") =>
        /\ IsSectorMin(sectors.front,
                       SectorSamples(lidar_data, 0, 29)
                           \cup SectorSamples(lidar_data, 330, 359),
                       lidar_data.range_max)
        /\ IsSectorMin(sectors.left, SectorSamples(lidar_data, 60, 119),
                       lidar_data.range_max)
        /\ IsSectorMin(sectors.right, SectorSamples(lidar_data, 240, 299),
                       lidar_data.range_max)

C10_Witness ==
    /\ op = "summary" /\ sectors.kind = "sectors"
    /\ lidar_data.n = Degrees
    /\ lidar_data.spot = <<>>
    /\ lidar_data.sur = <<D01, D02, D50, D10>>
    /\ sectors.front = RangeMax /\ sectors.left = D02 /\ sectors.right = RangeMax

\* |a - b| as the floats give it
AbsDiff(a, b) == IF FLt(a, b) THEN FSub(b, a) ELSE FSub(a, b)

ThreeTenths == Lit(3, 10)

Flags == {"left_better", "right_better", "equal"}

SaysLeft(r) == FGt(r, Lit(1, 2))

\* the last step was a tick that chose a turn side: any tick in TURNING, and
\* a tick in EXPLORING with 0.3 <= front_min < 0.7
TurnSite ==
    /\ op = "tick" /\ sectors.kind = "sectors"
    /\ \/ pre.state = "TURNING"
       \/ /\ pre.state = "EXPLORING"
          /\ FGe(sectors.front, Lit(3, 10))
          /\ FLt(sectors.front, Lit(7, 10))

\* the command the last tick would have published had random.random()
\* returned r
Replay(r) ==
    IF pre.state = "EXPLORING" THEN Exploring(pre.backup_time, sectors, r).cmd
    ELSE IF pre.state = "BACKING_UP" THEN BackingUp(pre.backup_time, sectors).cmd
    ELSE Turning(pre.backup_time, sectors, r).cmd

\* C12: where a turn side is chosen the angular speed is +0.8 whenever
\* left_better and -0.8 whenever right_better, and the random source is not
\* consulted; only when equal is it consulted, and then the angular speed is
\* +0.8 exactly when the source says "left" and -0.8 otherwise.  So the
\* command is decided by the scan and the outcome of the draw: any other
\* draw with the same outcome would have published the same command.
C12_TurnSignDeterministic ==
    TurnSite =>
        /\ out[1].angular \in {Lit(8, 10), FNeg(Lit(8, 10))}
        /\ sectors.left_better => (out[1].angular = Lit(8, 10) /\ draw = None)
        /\ sectors.right_better =>
               (out[1].angular = FNeg(Lit(8, 10)) /\ draw = None)
        /\ sectors.equal =>
               /\ draw \in RandomDraws
               /\ out[1].angular = Lit(8, 10) <=> SaysLeft(draw)
        /\ \A r \in RandomDraws :
               (draw = None \/ SaysLeft(r) = SaysLeft(draw)) => Replay(r) = out[1]

\* on a tie the draw said "left" right after a tick whose draw said "right"
C12_Witness ==
    /\ TurnSite /\ pre.state = "EXPLORING"
    /\ sectors.equal
    /\ draw \in RandomDraws /\ SaysLeft(draw)
    /\ out = <<SteerLeft>>
    /\ pre.out = <<SteerRight>>
    /\ lidar_data = EvenScan

(***************************************************************************)
(* control_loop step by step.  rclpy.spin(node) runs the callbacks of the    *)
(* node on one thread, each to its end before it takes the next; so a scan   *)
(* is delivered only between two calls of control_loop.  A call evaluates    *)
(* self.lidar_data at line 86 (is None), at lines 34 (is None) and 37        *)
(* (list(....ranges)) of get_safe_directions and, for the samples it tests,  *)
(* at line 63 (....range_max); frame.read lists what these evaluations       *)
(* gave.                                                                     *)
(***************************************************************************)
\* a scanner of short range
ShortRangeMax == Lit32(6, 10)
ShortRangeScan == LaserScan(CoarseSamples, <<D05, D09, D05, D20>>, <<>>, ShortRangeMax)

TickScans == {ClearScan, EvenScan, TooCloseScan, ShortRangeScan}

\* what get_sector_min works on: the list copied from one evaluation of
\* self.lidar_data and the range_max of another
ScanUsed(copied, now) == LaserScan(copied.n, copied.sur, copied.spot, now.range_max)

\* the executor takes a scan from /scan when no callback is running
executor_takes_scan_reentrant(msg) == lidar_callback(msg)
executor_takes_scan(msg) == frame.pc = "idle" /\ lidar_callback(msg)

\* control_loop, lines 86-89
control_loop_enter ==
    /\ phase = "spinning" /\ frame.pc = "idle"
    /\ pre' = Snapshot
    /\ IF lidar_data = None
       THEN /\ control_loop_no_data
            /\ frame' = [pc |-> "idle", read |-> <<lidar_data>>]
            /\ op' = "tick"
       ELSE /\ frame' = [pc |-> "get_safe_directions", read |-> <<lidar_data>>]
            /\ op' = "call"
            /\ UNCHANGED <<lidar_data, state, backup_time, phase, out, sectors>>
    /\ draw' = None
    /\ UNCHANGED ticks

\* get_safe_directions, lines 34-38; on None it returns None and control_loop
\* returns at line 91
get_safe_directions_enter ==
    /\ phase = "spinning" /\ frame.pc = "get_safe_directions"
    /\ IF lidar_data = None
       THEN /\ frame' = [pc |-> "idle", read |-> frame.read \o <<lidar_data>>]
            /\ op' = "tick"
            /\ out' = <<>>
       ELSE /\ frame' = [pc |-> "get_sector_min",
                         read |-> frame.read \o <<lidar_data, lidar_data>>]
            /\ UNCHANGED <<op, out>>
    /\ UNCHANGED <<lidar_data, state, backup_time, phase, sectors, draw, pre, ticks>>

\* get_safe_directions from line 40, then control_loop, lines 93-158
control_loop_finish ==
    /\ phase = "spinning" /\ frame.pc = "get_sector_min"
    /\ frame' = [pc |-> "idle", read |-> frame.read \o <<lidar_data>>]
    /\ sectors' = get_safe_directions(ScanUsed(frame.read[3], lidar_data))
    /\ \E r \in RandomDraws :
         LET res == IF state = "EXPLORING" THEN Exploring(backup_time, sectors', r)
                    ELSE IF state = "BACKING_UP" THEN BackingUp(backup_time, sectors')
                    ELSE Turning(backup_time, sectors', r)
         IN  /\ state' = res.state
             /\ backup_time' = res.backup_time
             /\ out' = <<res.cmd>>
             /\ draw' = IF DrawsRandom(state, sectors') THEN r ELSE None
    /\ ticks' = NextTicks(state)
    /\ op' = "tick"
    /\ UNCHANGED <<lidar_data, phase, pre>>

NextTick ==
    \/ \E msg \in TickScans : executor_takes_scan(msg)
    \/ control_loop_enter
    \/ get_safe_directions_enter
    \/ control_loop_finish
    \/ KeyboardInterrupt

SpecTick == Init /\ [][NextTick]_vars

\* every evaluation of self.lidar_data in the call gave the same scan
OneScanRead == \A i \in 1..Len(frame.read) : frame.read[i] = frame.read[1]

C14_LastScanWins ==
    /\ [][\A msg \in Scans :
            lidar_callback(msg) =>
                (lidar_data' = msg /\ UNCHANGED <<state, backup_time, out, sectors>>)]_vars
    /\ [][lidar_data # None => lidar_data' # None]_vars
    /\ [][op' = "tick" => lidar_data' = lidar_data]_vars
    /\ []((op = "tick" /\ lidar_data # None /\ phase # "crashed") =>
             /\ sectors = get_safe_directions(lidar_data)
             /\ Len(out) = 1)

\* a tick acts on the clear scan in the slot, after a tick that steered on
\* another scan, and a later tick would find the clear scan again
C14_Witness ==
    /\ op = "tick" /\ phase = "spinning"
    /\ lidar_data = ClearScan
    /\ sectors = get_safe_directions(ClearScan)
    /\ pre.out = <<SteerRight>>
    /\ out = <<StraightCommand>>

\* C15: once a scan has been delivered every tick publishes exactly one
\* command, in every state and on the ticks that change the state too.
\* (It fails on a scan without samples: the tick raises before it reaches the
\* publish of line 158 and no command is published.)
C15_OneCommandPerTick ==
    (op = "tick" /\ lidar_data # None) => Len(out) = 1

\* the timer reads v to four decimals: v <= t < v + 0.0001
Reads14(t) == FGe(t, Lit(14, 10)) /\ FLt(t, Lit(14001, 10000))
Reads15(t) == FGe(t, Lit(15, 10)) /\ FLt(t, Lit(15001, 10000))
Reads34(t) == FGe(t, Lit(34, 10)) /\ FLt(t, Lit(34001, 10000))
Reads35(t) == FGe(t, Lit(35, 10)) /\ FLt(t, Lit(35001, 10000))

\* C16: the timer becomes 0 only on the tick that takes EXPLORING to
\* BACKING_UP; every tick in BACKING_UP or TURNING adds 0.1 to it, the one
\* that leaves the state too: the tick from BACKING_UP at 1.4 gives 1.5 and
\* TURNING (the timer is not reset), the tick from TURNING at 3.4 gives 3.5
\* and EXPLORING (not reset either); every other tick in EXPLORING, a scan
\* and the shutdown leave it as it is.
C16_TimerFrame ==
    /\ [][(backup_time' # backup_time /\ backup_time' = FZero) =>
             (op' = "tick" /\ state = "EXPLORING" /\ state' = "BACKING_UP")]_vars
    /\ [][op' \in {"scan", "stop"} => backup_time' = backup_time]_vars
    /\ [](TickIn("EXPLORING") =>
             backup_time = IF state = "BACKING_UP" THEN FZero ELSE pre.backup_time)
    /\ []((TickIn("BACKING_UP") \/ TickIn("TURNING")) =>
             backup_time = FAdd(pre.backup_time, Lit(1, 10)))
    /\ [](TickIn("BACKING_UP") =>
             /\ Reads14(pre.backup_time) <=> state = "TURNING"
             /\ state = "TURNING" => Reads15(backup_time))
    /\ [](TickIn("TURNING") =>
             /\ Reads34(pre.backup_time) <=> state = "EXPLORING"
             /\ state = "EXPLORING" => Reads35(backup_time))

\* the tick from TURNING at 3.4: EXPLORING again, the timer at 3.5
C16_Witness ==
    /\ TickIn("TURNING") /\ state = "EXPLORING"
    /\ Reads34(pre.backup_time) /\ Reads35(backup_time)

\* C17: on every tick, in whatever state, a scan with front_min < 0.3 gets a
\* linear speed <= 0; and the linear speed is the full 0.12 only on a tick in
\* EXPLORING whose scan has front_min >= 0.7.
C17_NeverForwardWhenTooClose ==
    (op = "tick" /\ sectors.kind = "sectors") =>
        /\ Len(out) = 1
        /\ FLt(sectors.front, Lit(3, 10)) => ~FGt(out[1].linear, FZero)
        /\ out[1].linear = Lit(12, 100) =>
               (pre.state = "EXPLORING" /\ FGe(sectors.front, Lit(7, 10)))

\* too close in TURNING, after the turn has started: the robot turns on the spot
C17_Witness ==
    /\ TickIn("TURNING") /\ state = "TURNING"
    /\ FLt(sectors.front, Lit(3, 10))
    /\ out[1].linear = FZero
    /\ pre.out \in {<<TurnLeft>>, <<TurnRight>>}

\* the summaries of the scans that have samples
Summaries == {get_safe_directions(s) : s \in Scans \ {EmptyScan}}

StateChanges ==
    {<<"EXPLORING", "BACKING_UP">>, <<"BACKING_UP", "TURNING">>,
     <<"TURNING", "EXPLORING">>}

\* C18: the state changes only on a tick, and only from EXPLORING to
\* BACKING_UP, from BACKING_UP to TURNING and from TURNING to EXPLORING.
\* A tick in BACKING_UP publishes linear = -0.1, angular = 0, and the state
\* and the timer it leaves are those it would leave on any other scan; a
\* tick in TURNING leaves the state and the timer it would leave on any
\* other scan and any other draw: it never goes back to BACKING_UP, never
\* sets the timer to 0, and neither phase ends sooner or later for what the
\* scans show.
C18_OnlyTimedTransitions ==
    /\ [][state' # state => (op' = "tick" /\ <<state, state'>> \in StateChanges)]_vars
    /\ [](TickIn("BACKING_UP") =>
             /\ out = <<BackupCommand>>
             /\ \A sm \in Summaries :
                   BackingUp(pre.backup_time, sm) =
                       [state |-> state, backup_time |-> backup_time, cmd |-> out[1]])
    /\ [](TickIn("TURNING") =>
             /\ state # "BACKING_UP" /\ backup_time # FZero
             /\ \A sm \in Summaries : \A r \in RandomDraws :
                   /\ Turning(pre.backup_time, sm, r).state = state
                   /\ Turning(pre.backup_time, sm, r).backup_time = backup_time)

\* the front is clear again after five ticks of backing up: the robot goes
\* on backing up
C18_Witness ==
    /\ TickIn("BACKING_UP") /\ state = "BACKING_UP"
    /\ ticks = 5
    /\ FGe(sectors.front, Lit(7, 10))
    /\ out = <<BackupCommand>>

TurnCommands == {<<TurnLeft>>, <<TurnRight>>}

\* C19: counting from the tick in EXPLORING that found the front too close,
\* which publishes the first backup command, the next 15 ticks are in
\* BACKING_UP and publish a backup command each (16 in a row), the 20 ticks
\* after them are in TURNING and publish a turn command each, and only the
\* tick after those publishes by the rules of EXPLORING; the 16th backup
\* command and the 20th turn command come from the ticks that leave
\* BACKING_UP and TURNING.
C19_EpisodeCommands ==
    /\ (TickIn("EXPLORING") /\ state = "BACKING_UP") =>
           (ticks = 0 /\ out = <<BackupCommand>>)
    /\ TickIn("BACKING_UP") =>
           /\ ticks \in 1..15
           /\ out = <<BackupCommand>> /\ pre.out = <<BackupCommand>>
           /\ state = (IF ticks = 15 THEN "TURNING" ELSE "BACKING_UP")
    /\ TickIn("TURNING") =>
           /\ ticks \in 16..35
           /\ out \in TurnCommands
           /\ pre.out = <<BackupCommand>> <=> ticks = 16
           /\ pre.out \in TurnCommands <=> ticks > 16
           /\ state = (IF ticks = 35 THEN "EXPLORING" ELSE "TURNING")
    /\ TickIn("EXPLORING") =>
           /\ out \in {<<BackupCommand>>, <<SteerLeft>>, <<SteerRight>>,
                        <<StraightCommand>>}
           /\ pre.out # <<BackupCommand>>

\* the 16th backup command, published by the tick that enters TURNING
C19_Witness ==
    /\ TickIn("BACKING_UP") /\ state = "TURNING"
    /\ ticks = 15
    /\ out = <<BackupCommand>> /\ pre.out = <<BackupCommand>>

\* C20: between the steps, in BACKING_UP the timer is in [0, 1.5), in
\* TURNING in [1.5, 3.5), and in EXPLORING it is 0, no episode having run, or
\* the value at which the last TURNING ended, which is >= 3.5; and no step
\* lowers the timer but the tick that takes EXPLORING to BACKING_UP, which
\* makes it 0.
C20_TimerRanges ==
    /\ [](state = "BACKING_UP" =>
             (FGe(backup_time, FZero) /\ FLt(backup_time, Lit(15, 10))))
    /\ [](state = "TURNING" =>
             (FGe(backup_time, Lit(15, 10)) /\ FLt(backup_time, Lit(35, 10))))
    /\ [](state = "EXPLORING" =>
             \/ backup_time = FZero /\ ticks = 0
             \/ FGe(backup_time, Lit(35, 10)) /\ ticks = 35)
    /\ [][FLt(backup_time', backup_time) =>
             /\ backup_time' = FZero
             /\ op' = "tick" /\ state = "EXPLORING" /\ state' = "BACKING_UP"]_vars

\* exploring straight on after an episode, the timer still at what ended it
C20_Witness ==
    /\ state = "EXPLORING" /\ op = "tick" /\ pre.state = "EXPLORING"
    /\ FGe(backup_time, Lit(35, 10)) /\ pre.backup_time = backup_time
    /\ out = <<StraightCommand>>

====
